---- MODULE Spec2Model ----
(***************************************************************************)
(* A model of src/gradio_rag.py: the incremental index build (build_index  *)
(* over load_all_chunks, get_embedding and the persistent collection) and  *)
(* the streaming query (ask_with_context_stream).                          *)
(*                                                                         *)
(* Texts are sequences of one-character strings.  The embedding service,   *)
(* the generation service, the collection and the document directory are   *)
(* the environment: their answers and failures are nondeterministic.      *)
(* Progress reporting (gr.Progress) changes no state the program reads     *)
(* and is left out.                                                        *)
(***************************************************************************)
EXTENDS Naturals, Sequences, FiniteSets, TLC

\* ------------------------------------------------------------------------
\* Bounds of the model
\* ------------------------------------------------------------------------

\* Size of the document directory: characters of all files plus one per file.
MaxCorpusSize == 8

\* CHUNK_SIZE (5000 in the source), scaled to the bounded documents.
CHUNK_SIZE == 2

\* Whitespace, as str.strip() sees it.
WS == {" "}

\* The other characters of a document.
DocChars == {"a"}

\* ------------------------------------------------------------------------
\* Text helpers (Python str operations)
\* ------------------------------------------------------------------------

Min(a, b) == IF a <= b THEN a ELSE b

RECURSIVE LStrip(_)
LStrip(s) == IF s # <<>> /\ Head(s) \in WS THEN LStrip(Tail(s)) ELSE s

RECURSIVE RStrip(_)
RStrip(s) ==
  IF s # <<>> /\ s[Len(s)] \in WS THEN RStrip(SubSeq(s, 1, Len(s) - 1)) ELSE s

\* str.strip()
Strip(s) == RStrip(LStrip(s))

\* Mutant of SliceChunks: range stops before a last, shorter slice.
SliceChunksWhole(text, chunk_size) ==
  [k \in 1..(Len(text) \div chunk_size) |->
     SubSeq(text, (k - 1) * chunk_size + 1, k * chunk_size)]

\* [text[i:i + chunk_size] for i in range(0, len(text), chunk_size)]
SliceChunks(text, chunk_size) ==
  [k \in 1..((Len(text) + chunk_size - 1) \div chunk_size) |->
     SubSeq(text, (k - 1) * chunk_size + 1, Min(k * chunk_size, Len(text)))]

\* load_all_chunks over the files' contents in sorted file order
RECURSIVE load_all_chunks(_, _)
load_all_chunks(files, chunk_size) ==
  IF files = <<>> THEN <<>>
  ELSE LET text == Strip(Head(files))
           rest == load_all_chunks(Tail(files), chunk_size)
       IN  IF text = <<>> THEN rest
           ELSE SliceChunks(text, chunk_size) \o rest

\* The file contents of length l: text, possibly with whitespace around it,
\* or whitespace only.
DocsOfLength(l) ==
  { d \in [1..l -> DocChars \cup WS] :
      \A i \in 1..Len(Strip(d)) : Strip(d)[i] \in DocChars }

\* The directories of size at most w: sequences of file contents.
RECURSIVE CorporaWithin(_)
CorporaWithin(w) ==
  {<<>>} \cup
  UNION { { <<d>> \o rest : d \in DocsOfLength(l),
                            rest \in CorporaWithin(w - l - 1) } : l \in 0..(w - 1) }

Corpora == CorporaWithin(MaxCorpusSize)

\* What load_all_chunks(DATA_DIR, CHUNK_SIZE) can return within the bound.
LoadedChunkLists == { load_all_chunks(fs, CHUNK_SIZE) : fs \in Corpora }

\* ------------------------------------------------------------------------
\* State
\* ------------------------------------------------------------------------

VARIABLES
  index,         \* the collection: id (string) -> [document, embedding]
  pc,            \* build_index: "idle" (not running) or "loop" (lines 65-76)
  all_chunks,    \* build_index local: the chunk list of the running/last build
  existing_ids,  \* build_index local: the snapshot of stored ids
  idx,           \* build_index local: position of the loop (0-based)
  status,        \* outcome of the last build: the returned string, or a raise
  embedCalls,    \* history: positions passed to get_embedding in this build
  addCalls,      \* history: ids passed to collection.add in this build
  failedAt,      \* history: positions whose get_embedding call failed
  index0,        \* history: the collection as it was when this build started
  prev,          \* history: how the previous build ended and on what corpus
  qpc,           \* ask_with_context_stream: the stage it is at
  question,      \* ask_with_context_stream argument
  produced,      \* the values the generator has yielded, in order
  accumulated,   \* ask_with_context_stream local: the answer so far
  wire,          \* history: the lines r.iter_lines() has delivered
  netCalls,      \* history: the service calls made by this query, in order
  qend,          \* how the generator ended: "prompt", "error", "complete"
  status_code,   \* history: r.status_code of the generation response, if any
  cause,         \* history: the call or step whose exception ended the query
  raw_text,      \* load_all_chunks: what file.read_text() returned for a file
  size,          \* load_all_chunks argument chunk_size
  file_chunks,   \* load_all_chunks: the chunks made of that file
  lpc            \* load_all_chunks: "idle", "ready" (file read) or "loaded"

buildVars == <<index, pc, all_chunks, existing_ids, idx, status,
               embedCalls, addCalls, failedAt, index0, prev>>

queryVars == <<qpc, question, produced, accumulated, wire, netCalls, qend,
               status_code, cause>>

chunkVars == <<raw_text, size, file_chunks, lpc>>

vars == <<buildVars, queryVars, chunkVars>>

\* ------------------------------------------------------------------------
\* The environment: embedding service and collection
\* ------------------------------------------------------------------------

\* Ways get_embedding raises: requests.post fails, raise_for_status raises,
\* the answer has no "embedding" field.
EmbedErrors == {"bad_status"}

\* Ways a collection call raises.
IndexErrors == {"store_error"}

\* r.json()["embedding"]: the service's vector for a text.
get_embedding(text) == [vector_of |-> text]

\* collection.count()
CollectionCount(ix) == Cardinality(DOMAIN ix)

\* collection.get(limit=n).get("ids", [])
CollectionGetIds(ix, limit) ==
  IF limit >= Cardinality(DOMAIN ix) THEN DOMAIN ix
  ELSE CHOOSE S \in SUBSET DOMAIN ix : Cardinality(S) = limit

\* collection.add(ids=[id], documents=[doc], embeddings=[emb])
CollectionAdd(ix, id, doc, emb) ==
  [i \in DOMAIN ix \cup {id} |->
     IF i = id THEN [document |-> doc, embedding |-> emb] ELSE ix[i]]

\* str(idx)
ChunkId(i) == ToString(i)

\* ------------------------------------------------------------------------
\* build_index
\* ------------------------------------------------------------------------

Outcome(kind, n, e) == [kind |-> kind, n |-> n, e |-> e]

\* Mutant of SnapshotIds: only the first stored id is fetched (a fixed limit,
\* as collection.peek has).
SnapshotIdsPeek(ix) ==
  IF CollectionCount(ix) > 0 THEN CollectionGetIds(ix, 1) ELSE {}

\* Mutant of SnapshotIds: the snapshot is never filled.
SnapshotIdsNone(ix) == {}

\* lines 60-63: the ids stored now, fetched once
SnapshotIds(ix) ==
  IF CollectionCount(ix) > 0 THEN CollectionGetIds(ix, CollectionCount(ix))
  ELSE {}

\* Mutant of AlreadyIndexed: the position is looked up as a number, which no
\* stored id (a string) equals.
AlreadyIndexedIntKey(chunk_id, ids) == FALSE

\* line 68: chunk_id in existing_ids
AlreadyIndexed(chunk_id, ids) == chunk_id \in ids

\* Mutant of EmbedFailed: the error is noted and the loop goes on.
EmbedFailedContinue(e) ==
  /\ status' = Outcome("EmbedError", 0, e)
  /\ idx' = idx + 1
  /\ UNCHANGED <<index, pc, addCalls>>

\* lines 73-74: the except branch returns the error string
EmbedFailed(e) ==
  /\ status' = Outcome("EmbedError", 0, e)
  /\ pc' = "idle"
  /\ UNCHANGED <<index, idx, addCalls>>

\* An exception that build_index does not catch leaves it.
Raise(e) ==
  /\ status' = Outcome("Raised", 0, e)
  /\ pc' = "idle"

\* lines 55-63: load the chunks, return if there are none, take the snapshot
BuildStart ==
  /\ pc = "idle"
  /\ UNCHANGED <<queryVars, chunkVars>>
  /\ \E chunks \in LoadedChunkLists :
       /\ all_chunks' = chunks
       /\ prev' = [kind |-> status.kind, total |-> Len(all_chunks),
                   same |-> (chunks = all_chunks)]
       /\ embedCalls' = <<>>
       /\ addCalls' = <<>>
       /\ failedAt' = {}
       /\ index0' = index
       /\ idx' = 0
       /\ UNCHANGED index
       /\ IF Len(chunks) = 0
          THEN /\ status' = Outcome("Empty", 0, "")
               /\ UNCHANGED <<pc, existing_ids>>
          ELSE \/ /\ existing_ids' = SnapshotIds(index)
                  /\ pc' = "loop"
                  /\ status' = Outcome("Running", 0, "")
               \/ \E e \in IndexErrors :
                    /\ Raise(e)
                    /\ UNCHANGED existing_ids

\* lines 68-70: the id is in the snapshot
LoopSkip ==
  /\ pc = "loop"
  /\ idx < Len(all_chunks)
  /\ AlreadyIndexed(ChunkId(idx), existing_ids)
  /\ idx' = idx + 1
  /\ UNCHANGED <<index, pc, all_chunks, existing_ids, status,
                 embedCalls, addCalls, failedAt, index0, prev>>
  /\ UNCHANGED <<queryVars, chunkVars>>

\* lines 71-76: embed the chunk and add it
LoopEmbed ==
  /\ pc = "loop"
  /\ idx < Len(all_chunks)
  /\ ~AlreadyIndexed(ChunkId(idx), existing_ids)
  /\ embedCalls' = Append(embedCalls, idx)
  /\ UNCHANGED <<all_chunks, existing_ids, index0, prev>>
  /\ UNCHANGED <<queryVars, chunkVars>>
  /\ \/ \E e \in EmbedErrors :
          /\ failedAt' = failedAt \cup {idx}
          /\ EmbedFailed(e)
     \/ /\ index' = CollectionAdd(index, ChunkId(idx), all_chunks[idx + 1],
                                  get_embedding(all_chunks[idx + 1]))
        /\ addCalls' = Append(addCalls, ChunkId(idx))
        /\ idx' = idx + 1
        /\ UNCHANGED <<pc, status, failedAt>>
     \/ \E e \in IndexErrors :
          /\ Raise(e)
          /\ addCalls' = Append(addCalls, ChunkId(idx))
          /\ UNCHANGED <<index, idx, failedAt>>

\* Mutant of VectorsStored: the size of the corpus is reported.
VectorsStoredTotal(ix, total) == total

\* line 78: the number in the status is collection.count()
VectorsStored(ix, total) == CollectionCount(ix)

\* line 78: all chunks done, report collection.count()
BuildFinish ==
  /\ pc = "loop"
  /\ idx = Len(all_chunks)
  /\ \/ /\ status' = Outcome("Done", VectorsStored(index, Len(all_chunks)), "")
        /\ pc' = "idle"
     \/ \E e \in IndexErrors : Raise(e)
  /\ UNCHANGED <<index, all_chunks, existing_ids, idx,
                 embedCalls, addCalls, failedAt, index0, prev>>
  /\ UNCHANGED <<queryVars, chunkVars>>

\* ------------------------------------------------------------------------
\* JSON values and the Python operations applied to them
\* ------------------------------------------------------------------------

JStr(s) == [t |-> "str", v |-> s]
JNum(n) == [t |-> "num", v |-> n]
JNull == [t |-> "null"]
JArr(a) == [t |-> "arr", v |-> a]
JObj(f) == [t |-> "obj", f |-> f]
NoFields == [k \in {} |-> JNull]

\* An exception raised while a value is handled.
Exc(name) == [t |-> "exc", v |-> name]

\* bool(v)
Truthy(v) ==
  CASE v.t = "str" -> v.v # <<>>
    [] v.t = "num" -> v.v # 0
    [] v.t = "arr" -> v.v # <<>>
    [] v.t = "obj" -> DOMAIN v.f # {}
    [] OTHER -> FALSE

\* d.get(key, default) on a dict
Get(d, key, default) == IF key \in DOMAIN d.f THEN d.f[key] ELSE default

\* a + b as used by "+=" on the texts: defined for two strings
PyAdd(a, b) ==
  IF a.t = "str" /\ b.t = "str" THEN JStr(a.v \o b.v) ELSE Exc("TypeError")

\* Mutant of ChoicePiece: only the nested delta content is read.
ChoicePieceContentOnly(ch) ==
  LET delta == Get(ch, "delta", JObj(NoFields))
  IN  IF delta.t # "obj" THEN Exc("AttributeError")
      ELSE IF Truthy(Get(delta, "content", JStr(<<>>)))
           THEN Get(delta, "content", JStr(<<>>))
           ELSE JStr(<<>>)

\* line 134: ch.get("delta", {}).get("content", "") or ch.get("text", "") or ""
ChoicePiece(ch) ==
  LET delta == Get(ch, "delta", JObj(NoFields))
  IN  IF delta.t # "obj" THEN Exc("AttributeError")
      ELSE IF Truthy(Get(delta, "content", JStr(<<>>)))
           THEN Get(delta, "content", JStr(<<>>))
           ELSE IF Truthy(Get(ch, "text", JStr(<<>>)))
                THEN Get(ch, "text", JStr(<<>>))
                ELSE JStr(<<>>)

\* lines 132-134: for ch in choices: if isinstance(ch, dict): chunk_text += ...
RECURSIVE AddChoices(_, _)
AddChoices(chunk_text, choices) ==
  IF choices = <<>> THEN chunk_text
  ELSE IF Head(choices).t # "obj" THEN AddChoices(chunk_text, Tail(choices))
  ELSE IF ChoicePiece(Head(choices)).t = "exc" THEN ChoicePiece(Head(choices))
  ELSE IF PyAdd(chunk_text, ChoicePiece(Head(choices))).t = "exc"
       THEN PyAdd(chunk_text, ChoicePiece(Head(choices)))
  ELSE AddChoices(PyAdd(chunk_text, ChoicePiece(Head(choices))), Tail(choices))

\* lines 126-134: the chunk_text of a parsed payload, or the exception raised
ExtractDelta(payload_chunk) ==
  IF payload_chunk.t # "obj" THEN JStr(<<>>)
  ELSE LET chunk_text == Get(payload_chunk, "response", JStr(<<>>))
       IN  IF ~Truthy(chunk_text) /\ "choices" \in DOMAIN payload_chunk.f
           THEN LET choices == payload_chunk.f["choices"]
                IN  IF Truthy(choices) /\ choices.t = "arr"
                    THEN AddChoices(chunk_text, choices.v)
                    ELSE chunk_text
           ELSE chunk_text

\* ------------------------------------------------------------------------
\* The generation stream: lines on the wire and how one line is handled
\* ------------------------------------------------------------------------

\* Lines a stream may hold within the model.
MaxLines == 3

\* Texts the generation service sends as deltas.
Deltas == { <<"a">>, <<"b", "c">> }

\* Bodies of a line, after the optional "data:" marker and surrounding blanks.
EmptyBody == [k |-> "empty", v |-> JNull]
DoneBody == [k |-> "done", v |-> JNull]
UndecodableBody == [k |-> "undecodable", v |-> JNull]
MalformedBody == [k |-> "malformed", v |-> JNull]
JsonBody(p) == [k |-> "json", v |-> p]

Direct(d) == JObj([response |-> JStr(d)])
ChoiceDelta(d) == JObj([delta |-> JObj([content |-> JStr(d)])])
ChoiceText(d) == JObj([text |-> JStr(d)])
Choices(cs) == JObj([choices |-> JArr(cs)])

Payloads ==
  { Direct(d) : d \in Deltas \cup {<<>>} }
  \cup { Choices(<<ChoiceDelta(<<"a">>)>>),
         Choices(<<ChoiceText(<<"b", "c">>)>>),
         Choices(<<JObj([delta |-> JObj(NoFields)])>>),
         Choices(<<ChoiceDelta(<<"a">>), ChoiceText(<<"b", "c">>)>>),
         Choices(<<JObj([delta |-> JNull])>>),
         Choices(<<JObj([delta |-> JObj([content |-> JNull]),
                         text |-> JStr(<<"b", "c">>)])>>),
         Choices(<<JObj([delta |-> JObj([content |-> JStr(<<"a">>)]),
                         text |-> JStr(<<"b", "c">>)])>>),
         JNum(1) }

Line(framed, body) == [framed |-> framed, body |-> body]

Lines ==
  { Line(FALSE, b) : b \in {EmptyBody, DoneBody, UndecodableBody, MalformedBody}
                           \cup { JsonBody(p) : p \in Payloads } }
  \cup { Line(TRUE, b) : b \in {EmptyBody, DoneBody, JsonBody(Direct(<<"a">>))} }

\* What handling a line leaves: the accumulator, the values yielded (none or
\* one), and the exception that left the loop ("" for none).
Handled(acc, out, exc) == [acc |-> acc, out |-> out, exc |-> exc]

\* Mutant of OnJsonDecodeError: the parse error is not caught in the loop.
OnJsonDecodeErrorRaise(acc) == Handled(acc, <<>>, "JSONDecodeError")

\* lines 138-139: except json.JSONDecodeError: continue
OnJsonDecodeError(acc) == Handled(acc, <<>>, "")

\* Mutant of Yielded: the delta is yielded in place of the accumulator.
YieldedDelta(acc, chunk_text) == chunk_text

\* line 137: yield accumulated
Yielded(acc, chunk_text) == acc

\* lines 135-137: if chunk_text: accumulated += chunk_text; yield accumulated
Accumulate(acc, chunk_text) ==
  IF chunk_text.t = "exc" THEN Handled(acc, <<>>, chunk_text.v)
  ELSE IF ~Truthy(chunk_text) THEN Handled(acc, <<>>, "")
  ELSE IF PyAdd(JStr(acc), chunk_text).t = "exc" THEN Handled(acc, <<>>, "TypeError")
  ELSE Handled(acc \o chunk_text.v,
               <<Yielded(acc \o chunk_text.v, chunk_text.v)>>, "")

\* lines 116-139: one line of r.iter_lines()
ProcessLine(acc, line) ==
  CASE line.body.k = "undecodable" -> Handled(acc, <<>>, "UnicodeDecodeError")
    [] line.body.k \in {"empty", "done"} -> Handled(acc, <<>>, "")
    [] line.body.k = "malformed" -> OnJsonDecodeError(acc)
    [] OTHER -> Accumulate(acc, ExtractDelta(line.body.v))

\* lines 114-139 as a function of the lines read: the accumulator, the values
\* yielded and the exception that ended the loop, starting from acc and out
RECURSIVE RunFrom(_, _, _)
RunFrom(acc, out, lines) ==
  IF lines = <<>> THEN Handled(acc, out, "")
  ELSE IF ProcessLine(acc, Head(lines)).exc # ""
       THEN Handled(acc, out, ProcessLine(acc, Head(lines)).exc)
  ELSE RunFrom(ProcessLine(acc, Head(lines)).acc,
               out \o ProcessLine(acc, Head(lines)).out, Tail(lines))

\* ------------------------------------------------------------------------
\* ask_with_context_stream
\* ------------------------------------------------------------------------

\* "Please enter a question."
PleaseEnter ==
  <<"P", "l", "e", "a", "s", "e", " ", "e", "n", "t", "e", "r", " ", "a",
    " ", "q", "u", "e", "s", "t", "i", "o", "n", ".">>

\* "Error getting question embedding: "
EmbedErrorPrefix ==
  <<"E", "r", "r", "o", "r", " ", "g", "e", "t", "t", "i", "n", "g", " ",
    "q", "u", "e", "s", "t", "i", "o", "n", " ", "e", "m", "b", "e", "d",
    "d", "i", "n", "g", ":", " ">>

\* "Error querying ChromaDB: "
QueryErrorPrefix ==
  <<"E", "r", "r", "o", "r", " ", "q", "u", "e", "r", "y", "i", "n", "g",
    " ", "C", "h", "r", "o", "m", "a", "D", "B", ":", " ">>

\* "Error calling Ollama generate API: "
GenerateErrorPrefix ==
  <<"E", "r", "r", "o", "r", " ", "c", "a", "l", "l", "i", "n", "g", " ",
    "O", "l", "l", "a", "m", "a", " ", "g", "e", "n", "e", "r", "a", "t",
    "e", " ", "A", "P", "I", ":", " ">>

\* str(e): the text of an exception, one unit of text
ExcText(e) == <<e>>

\* The questions asked: none, empty, blank, and a real one.
Questions == { <<>>, <<" ">>, <<"q">>, <<" ", "q">> }

\* Ways the generation request or its stream fail: requests.post raises,
\* raise_for_status raises, iter_lines raises in mid-stream.
ConnectErrors == {"connection_refused"}
StatusErrors == {"500"}
TransportErrors == {"connection_reset"}

\* The status codes the generation service answers with.
StatusCodes == {"200"} \cup StatusErrors

\* Mutant of raise_for_status: the status of the response is not looked at.
raise_for_status_skipped(code) == FALSE

\* line 113: r.raise_for_status() raises on an error status
raise_for_status(code) == code \in StatusErrors

\* Mutant of Fail: the exception is not caught and leaves the generator.
FailRaise(stage, message) ==
  /\ qend' = "raised"
  /\ qpc' = "done"
  /\ cause' = stage
  /\ UNCHANGED produced

\* lines 90-92, 96-98, 140-142: yield the error text and return
Fail(stage, message) ==
  /\ produced' = Append(produced, message)
  /\ qend' = "error"
  /\ qpc' = "done"
  /\ cause' = stage

\* Mutant of NoQuestion: only the missing or empty question is caught.
NoQuestionUnstripped(q) == q = <<>>

\* line 84: not question or question.strip() == ""
NoQuestion(q) == q = <<>> \/ Strip(q) = <<>>

\* lines 83-86: a new call; an empty or blank question is answered at once
Ask ==
  /\ qpc \in {"idle", "done"}
  /\ \E q \in Questions :
       /\ question' = q
       /\ IF NoQuestion(q)
          THEN /\ produced' = <<PleaseEnter>>
               /\ qend' = "prompt"
               /\ qpc' = "done"
          ELSE /\ produced' = <<>>
               /\ qend' = "none"
               /\ qpc' = "embed"
  /\ accumulated' = <<>>
  /\ wire' = <<>>
  /\ netCalls' = <<>>
  /\ status_code' = ""
  /\ cause' = ""
  /\ UNCHANGED <<buildVars, chunkVars>>

\* Mutant of QEmbed: the except branch yields the error text but does not
\* return, so the query goes on to the index.
QEmbedNoReturn ==
  /\ qpc = "embed"
  /\ netCalls' = Append(netCalls, "embed")
  /\ qpc' = "retrieve"
  /\ \/ UNCHANGED <<produced, qend, cause>>
     \/ \E e \in EmbedErrors :
          /\ produced' = Append(produced, EmbedErrorPrefix \o ExcText(e))
          /\ cause' = "embed"
          /\ UNCHANGED qend
  /\ UNCHANGED <<question, accumulated, wire, status_code>>
  /\ UNCHANGED <<buildVars, chunkVars>>

\* lines 88-92: q_emb = get_embedding(question)
QEmbed ==
  /\ qpc = "embed"
  /\ netCalls' = Append(netCalls, "embed")
  /\ \/ /\ qpc' = "retrieve"
        /\ UNCHANGED <<produced, qend, cause>>
     \/ \E e \in EmbedErrors : Fail("embed", EmbedErrorPrefix \o ExcText(e))
  /\ UNCHANGED <<question, accumulated, wire, status_code>>
  /\ UNCHANGED <<buildVars, chunkVars>>

\* lines 94-98: results = collection.query(...)
QRetrieve ==
  /\ qpc = "retrieve"
  /\ netCalls' = Append(netCalls, "query")
  /\ \/ /\ qpc' = "generate"
        /\ UNCHANGED <<produced, qend, cause>>
     \/ \E e \in IndexErrors : Fail("query", QueryErrorPrefix \o ExcText(e))
  /\ UNCHANGED <<question, accumulated, wire, status_code>>
  /\ UNCHANGED <<buildVars, chunkVars>>

\* lines 100-114: build the prompt, post it, check the status
QGenerate ==
  /\ qpc = "generate"
  /\ netCalls' = Append(netCalls, "generate")
  /\ \/ /\ \E e \in ConnectErrors :
             Fail("connect", GenerateErrorPrefix \o ExcText(e))
        /\ UNCHANGED status_code
     \/ \E code \in StatusCodes :
          /\ status_code' = code
          /\ IF raise_for_status(code)
             THEN Fail("status", GenerateErrorPrefix \o ExcText(code))
             ELSE /\ qpc' = "stream"
                  /\ UNCHANGED <<produced, qend, cause>>
  /\ accumulated' = <<>>
  /\ UNCHANGED <<question, wire>>
  /\ UNCHANGED <<buildVars, chunkVars>>

\* lines 115-139: the next line of the stream arrives and is handled
QLine ==
  /\ qpc = "stream"
  /\ Len(wire) < MaxLines
  /\ \E line \in Lines :
       LET h == ProcessLine(accumulated, line)
       IN  /\ wire' = Append(wire, line)
           /\ IF h.exc # ""
              THEN /\ Fail("payload", GenerateErrorPrefix \o ExcText(h.exc))
                   /\ UNCHANGED accumulated
              ELSE /\ accumulated' = h.acc
                   /\ produced' = produced \o h.out
                   /\ UNCHANGED <<qpc, qend, cause>>
  /\ UNCHANGED <<question, netCalls, status_code>>
  /\ UNCHANGED <<buildVars, chunkVars>>

\* lines 115, 140-142: reading the stream fails in mid-stream
QStreamFail ==
  /\ qpc = "stream"
  /\ \E e \in TransportErrors : Fail("transport", GenerateErrorPrefix \o ExcText(e))
  /\ UNCHANGED <<question, accumulated, wire, netCalls, status_code>>
  /\ UNCHANGED <<buildVars, chunkVars>>

\* Mutant of FinalYield: the accumulator is yielded at the end only when it
\* holds text.
FinalYieldIfText(acc) == IF acc # <<>> THEN <<acc>> ELSE <<>>

\* line 144: yield accumulated
FinalYield(acc) == <<acc>>

\* lines 115, 144: the stream ends; yield accumulated
QStreamEnd ==
  /\ qpc = "stream"
  /\ produced' = produced \o FinalYield(accumulated)
  /\ qend' = "complete"
  /\ qpc' = "done"
  /\ UNCHANGED <<question, accumulated, wire, netCalls, status_code, cause>>
  /\ UNCHANGED <<buildVars, chunkVars>>

\* ------------------------------------------------------------------------
\* Initial states and specifications
\* ------------------------------------------------------------------------

\* Ids a chunk of the bounded corpus can get.
MaxChunks == MaxCorpusSize \div CHUNK_SIZE

\* A document stored before the program started.
StoredDoc == <<"a">>

\* The persistent collection holds whatever earlier runs left in it.
InitialIndexes ==
  { [i \in E |-> [document |-> StoredDoc, embedding |-> get_embedding(StoredDoc)]] :
      E \in SUBSET { ChunkId(i) : i \in 0..(MaxChunks - 1) } }

\* Documents and chunk sizes load_all_chunks is applied to on its own.
MaxTextLen == 4
MaxChunkSize == 3
TextChars == {"a", "b"}

Texts == UNION { [1..l -> TextChars \cup WS] : l \in 0..MaxTextLen }

ChunkSizes == 1..MaxChunkSize

\* Nothing runs: no build, no query.
InitIdle ==
  /\ index \in InitialIndexes
  /\ pc = "idle"
  /\ all_chunks = <<>>
  /\ existing_ids = {}
  /\ idx = 0
  /\ status = Outcome("None", 0, "")
  /\ embedCalls = <<>>
  /\ addCalls = <<>>
  /\ failedAt = {}
  /\ index0 = index
  /\ prev = [kind |-> "None", total |-> 0, same |-> FALSE]
  /\ qpc = "idle"
  /\ question = <<>>
  /\ produced = <<>>
  /\ accumulated = <<>>
  /\ wire = <<>>
  /\ netCalls = <<>>
  /\ qend = "none"
  /\ status_code = ""
  /\ cause = ""

Init ==
  /\ InitIdle
  /\ raw_text = <<>>
  /\ size = CHUNK_SIZE
  /\ file_chunks = <<>>
  /\ lpc = "idle"

\* The index build, on any collection earlier runs may have left.
Next == BuildStart \/ LoopSkip \/ LoopEmbed \/ BuildFinish

Spec == Init /\ [][Next]_vars

\* The index build on a collection that starts empty.
InitFresh == Init /\ index = <<>>

SpecFresh == InitFresh /\ [][Next]_vars

\* The streaming query.  It only reads the collection, and what the
\* collection answers is the environment's choice, so one collection is enough.
InitQuery == Init /\ index = <<>>

NextQuery == Ask \/ QEmbed \/ QRetrieve \/ QGenerate \/ QLine \/ QStreamFail \/ QStreamEnd

SpecQuery == InitQuery /\ [][NextQuery]_vars

\* lines 43-48: strip the text of one file and slice it
LoadFile ==
  /\ lpc = "ready"
  /\ file_chunks' = load_all_chunks(<<raw_text>>, size)
  /\ lpc' = "loaded"
  /\ UNCHANGED <<raw_text, size, buildVars, queryVars>>

\* load_all_chunks on a directory of one file, for any text and chunk size.
InitChunk ==
  /\ InitIdle
  /\ index = <<>>
  /\ raw_text \in Texts
  /\ size \in ChunkSizes
  /\ file_chunks = <<>>
  /\ lpc = "ready"

NextChunk == LoadFile

SpecChunk == InitChunk /\ [][NextChunk]_vars

\* ------------------------------------------------------------------------
\* Claims about build_index
\* ------------------------------------------------------------------------

\* A build has ended: build_index returned or raised.
BuildEnded == pc = "idle" /\ status.kind # "None"

\* The positions of the chunk list whose id was not stored at the start.
MissingAtStart ==
  { i \in 0..(Len(all_chunks) - 1) : ChunkId(i) \notin DOMAIN index0 }

\* The members of a set of numbers in ascending order.
Ascending(S) ==
  CHOOSE s \in [1..Cardinality(S) -> S] :
    /\ \A k \in 1..Cardinality(S) : \A l \in 1..Cardinality(S) :
         k < l => s[k] < s[l]

NoEmbeddingAndSameCount ==
  /\ embedCalls = <<>>
  /\ CollectionCount(index) = CollectionCount(index0)

\* C1 (as stated): a build over the corpus of the build before it, however
\* that one ended, makes no embedding call and leaves count() as it was.
C1_SecondRunAlwaysIdle ==
  (prev.kind # "None" /\ prev.same) => NoEmbeddingAndSameCount

\* C1 (amended): a build over the corpus of the build before it, when that
\* one ran to its end (returned Done or Empty), makes no embedding call and
\* leaves count() as it was.
C1_IdempotentAfterCompletedBuild ==
  (prev.kind \in {"Done", "Empty"} /\ prev.same) => NoEmbeddingAndSameCount

\* Witness of C1: a second build over the same corpus of at least two chunks
\* has returned Done, and the collection holds an entry the program added.
C1_Witness ==
  /\ BuildEnded /\ status.kind = "Done"
  /\ prev.kind = "Done" /\ prev.same
  /\ Len(all_chunks) >= 2
  /\ \E id \in DOMAIN index : index[id].document # StoredDoc

C3_IncrementalIndexing ==
  (prev.kind = "Done" /\ Len(all_chunks) > prev.total) =>
    \A k \in 1..Len(embedCalls) :
      embedCalls[k] \in prev.total..(Len(all_chunks) - 1)

\* Witness of C3: after a Done build on two chunks, a build on four chunks has
\* returned Done having embedded positions 2 and 3.
C3_Witness ==
  /\ status.kind = "Done"
  /\ prev.kind = "Done" /\ prev.total = 2
  /\ Len(all_chunks) = 4
  /\ embedCalls = <<2, 3>>

\* C4: every entry stored when a build started is stored unchanged (same id,
\* document and embedding) at every later moment of the build and after it,
\* however it ends and also when the corpus text at that id differs.
C4_ExistingEntriesUntouched ==
  \A id \in DOMAIN index0 : id \in DOMAIN index /\ index[id] = index0[id]

\* Witness of C4: a build that added an entry has ended, and an entry stored at
\* its start holds a document other than the corpus chunk at that position.
C4_Witness ==
  /\ BuildEnded
  /\ addCalls # <<>>
  /\ \E i \in 0..(Len(all_chunks) - 1) :
       /\ ChunkId(i) \in DOMAIN index0
       /\ index0[ChunkId(i)].document # all_chunks[i + 1]

\* C7 (as stated): no build raises; also a build in which a collection call
\* (count, get, add) fails ends by returning a status string.
C7_IndexErrorsReturned == status.kind # "Raised"

\* C8: once the embedding call for position i has failed, the build is over
\* with the embedding-error status, no embedding call and no add was made for
\* a later position, and every earlier position is stored.
C8_CommittedPrefix ==
  \A i \in failedAt :
    /\ failedAt = {i}
    /\ pc = "idle" /\ status.kind = "EmbedError"
    /\ \A k \in 1..Len(embedCalls) : embedCalls[k] <= i
    /\ \A k \in 1..Len(addCalls) : \E j \in 0..(i - 1) : addCalls[k] = ChunkId(j)
    /\ \A j \in 0..(i - 1) : ChunkId(j) \in DOMAIN index

\* Witness of C8: the call for position 2 failed after position 0 was skipped
\* and position 1 was embedded and added.
C8_Witness ==
  /\ failedAt = {2}
  /\ "0" \in existing_ids
  /\ addCalls = <<"1">>
  /\ Len(all_chunks) = 4

\* ------------------------------------------------------------------------
\* Claims about ask_with_context_stream
\* ------------------------------------------------------------------------

IsPrefix(p, t) == Len(p) <= Len(t) /\ SubSeq(t, 1, Len(p)) = p

Last(q) == q[Len(q)]

\* A line carrying a non-empty delta in the direct text field.
IsDirectDelta(line) ==
  /\ line.body.k = "json"
  /\ \E d \in Deltas : line.body.v = Direct(d)

\* The concatenation of the deltas of the first k lines of w.
RECURSIVE ConcatFirst(_, _)
ConcatFirst(w, k) ==
  IF k = 0 THEN <<>> ELSE ConcatFirst(w, k - 1) \o w[k].body.v.f["response"].v

\* C5 (as stated): when the stream delivered the non-empty deltas d1..dn
\* (n >= 1) and ended normally, the produced sequence is exactly the n running
\* concatenations, with no further value.
C5_RunningConcatenationsOnly ==
  (qend = "complete" /\ wire # <<>> /\ \A k \in 1..Len(wire) : IsDirectDelta(wire[k]))
    => produced = [k \in 1..Len(wire) |-> ConcatFirst(wire, k)]

\* The error texts of the three stages.
IsErrorText(v) ==
  \/ IsPrefix(EmbedErrorPrefix, v)
  \/ IsPrefix(QueryErrorPrefix, v)
  \/ IsPrefix(GenerateErrorPrefix, v)

ErrorPrefixOf(stage) ==
  CASE stage = "embed" -> EmbedErrorPrefix
    [] stage = "query" -> QueryErrorPrefix
    [] OTHER -> GenerateErrorPrefix

\* C6 (as stated): a query in which a call fails never raises, and the error
\* description is the single value it produces.
C6_ErrorIsOnlyValue ==
  /\ qend # "raised"
  /\ qend = "error" => (Len(produced) = 1 /\ IsErrorText(produced[1]))

\* C6 (amended): a query in which a call fails never raises and ends with the
\* error description as its last value; the values before it are the
\* accumulators yielded before the failure, and there are none when the
\* embedding call, the index query, the connection or the status check failed.
C6_ErrorIsLastValue ==
  /\ qend # "raised"
  /\ qend = "error" =>
       /\ produced # <<>>
       /\ IsPrefix(ErrorPrefixOf(cause), Last(produced))
       /\ SubSeq(produced, 1, Len(produced) - 1) = RunFrom(<<>>, <<>>, wire).out
       /\ cause \in {"embed", "query", "connect", "status"} => Len(produced) = 1

\* Witness of C6: the stream failed in mid-stream after two deltas had been
\* yielded, and the error text is the third value.
C6_Witness ==
  /\ qend = "error" /\ cause = "transport"
  /\ Len(produced) = 3
  /\ produced[2] = <<"a", "b", "c">>
  /\ IsPrefix(GenerateErrorPrefix, produced[3])

\* The lines of w that json.loads accepts or that never reach it.
Parseable(line) == line.body.k # "malformed"

\* C9: a line that fails to parse never ends the stream, and what the query
\* has yielded and accumulated, while the stream is open and when it has ended
\* normally, is what the same lines without the unparseable ones yield and
\* accumulate.
C9_MalformedLinesIgnored ==
  /\ (qpc = "done" /\ wire # <<>> /\ ~Parseable(Last(wire))) => cause # "payload"
  /\ qpc = "stream" =>
       /\ RunFrom(<<>>, <<>>, wire) = Handled(accumulated, produced, "")
       /\ RunFrom(<<>>, <<>>, SelectSeq(wire, Parseable))
            = Handled(accumulated, produced, "")
  /\ qend = "complete" =>
       LET r == RunFrom(<<>>, <<>>, SelectSeq(wire, Parseable))
       IN  r.exc = "" /\ produced = Append(r.out, r.acc)

\* Witness of C9: a stream with an unparseable line between two valid deltas
\* has ended normally with the values of the two deltas.
C9_Witness ==
  /\ qend = "complete"
  /\ wire = <<Line(FALSE, JsonBody(Direct(<<"a">>))), Line(FALSE, MalformedBody),
              Line(FALSE, JsonBody(Direct(<<"b", "c">>)))>>
  /\ produced = <<<<"a">>, <<"a", "b", "c">>, <<"a", "b", "c">>>>

\* The query reached the generation stage.
ReachedGeneration == \E k \in 1..Len(netCalls) : netCalls[k] = "generate"

\* C10 (as stated): in a query that reached the generation stage, every
\* produced value after the first has the value before it as a prefix, however
\* the stream ended.
C10_EveryValueExtendsPrevious ==
  ReachedGeneration =>
    \A k \in 1..(Len(produced) - 1) : IsPrefix(produced[k], produced[k + 1])

\* C10 (amended): in a query that reached the generation stage, every produced
\* value after the first has the value before it as a prefix, except the error
\* description that ends a failed query.
C10_AccumulatorsGrow ==
  ReachedGeneration =>
    \A k \in 1..(Len(produced) - 1) :
      (k + 1 < Len(produced) \/ qend # "error")
        => IsPrefix(produced[k], produced[k + 1])

\* Witness of C10: two deltas were yielded as growing accumulators and the
\* stream then failed, the error text following them.
C10_Witness ==
  /\ ReachedGeneration
  /\ qend = "error" /\ cause \in {"transport", "payload"}
  /\ Len(produced) = 3
  /\ produced[1] # produced[2]
  /\ IsPrefix(produced[1], produced[2])
  /\ ~IsPrefix(produced[2], produced[3])

\* ------------------------------------------------------------------------
\* Claims about the stages of ask_with_context_stream
\* ------------------------------------------------------------------------

\* A question with no character other than whitespace (the empty one included).
OnlyWhitespace(q) == \A k \in 1..Len(q) : q[k] \in WS

\* A query was asked (the generator was started at least once).
Asked == qpc # "idle"

\* C11: a query whose question is empty or consists only of whitespace
\* produces exactly one value, the prompt-for-input message, and makes no call
\* to the embedding service, the vector index or the generation service.
C11_BlankQuestionShortCircuits ==
  (Asked /\ OnlyWhitespace(question)) =>
    /\ produced = <<PleaseEnter>>
    /\ netCalls = <<>>
    /\ qpc = "done"
    /\ qend = "prompt"

\* Witness of C11: a question of whitespace only was answered by the prompt.
C11_Witness ==
  /\ Asked
  /\ question # <<>> /\ OnlyWhitespace(question)
  /\ produced = <<PleaseEnter>>
  /\ netCalls = <<>>

\* C12: when the generation service answers with an error status, the query
\* produces exactly one value, which contains an error description, and then
\* ends: no line of the answer is read and no accumulator value follows.
C12_ErrorStatusGivesOneValue ==
  status_code \in StatusErrors =>
    /\ qpc = "done"
    /\ qend = "error"
    /\ Len(produced) = 1
    /\ IsPrefix(GenerateErrorPrefix \o ExcText(status_code), produced[1])
    /\ wire = <<>>

\* Witness of C12: the three calls were made, the generation service answered
\* 500, and the one value produced is the error text.
C12_Witness ==
  /\ netCalls = <<"embed", "query", "generate">>
  /\ status_code = "500"
  /\ produced = <<GenerateErrorPrefix \o ExcText("500")>>
  /\ qpc = "done"

\* ------------------------------------------------------------------------
\* Claims about load_all_chunks
\* ------------------------------------------------------------------------

\* The chunks of a list joined in order.
RECURSIVE Flatten(_)
Flatten(cs) == IF cs = <<>> THEN <<>> ELSE Head(cs) \o Flatten(Tail(cs))

\* ceil(n / s)
CeilDiv(n, s) == (n + s - 1) \div s

\* t[i..j] is t without its leading and trailing whitespace.
IsStrippedPart(t, i, j) ==
  /\ \A k \in 1..(i - 1) : t[k] \in WS
  /\ \A k \in (j + 1)..Len(t) : t[k] \in WS
  /\ i <= j => (t[i] \notin WS /\ t[j] \notin WS)

\* C13 (as stated): for every document text T and size S > 0, the chunks
\* made of T join to T exactly, every chunk has length at most S, and there
\* are ceil(len(T) / S) of them.
C13_ChunksReconstructText ==
  lpc = "loaded" =>
    /\ Flatten(file_chunks) = raw_text
    /\ \A k \in 1..Len(file_chunks) : Len(file_chunks[k]) <= size
    /\ Len(file_chunks) = CeilDiv(Len(raw_text), size)

\* C13 (amended): for every document text T and size S > 0, the chunks made
\* of T join to T without its leading and trailing whitespace, every chunk
\* has length at most S, and there are ceil(n / S) of them, n being the length
\* of T without that whitespace.
C13_ChunksReconstructStrippedText ==
  lpc = "loaded" =>
    \E i \in 1..(Len(raw_text) + 1) : \E j \in (i - 1)..Len(raw_text) :
      /\ IsStrippedPart(raw_text, i, j)
      /\ Flatten(file_chunks) = SubSeq(raw_text, i, j)
      /\ \A k \in 1..Len(file_chunks) : Len(file_chunks[k]) <= size
      /\ Len(file_chunks) = CeilDiv((j + 1) - i, size)

\* Witness of C13: a text with whitespace before it was cut into a full
\* chunk and a shorter last one.
C13_Witness ==
  /\ lpc = "loaded"
  /\ raw_text = <<" ", "a", "b", "a">>
  /\ size = 2
  /\ file_chunks = << <<"a", "b">>, <<"a">> >>

\* ------------------------------------------------------------------------
\* Claims about the payloads of the generation stream
\* ------------------------------------------------------------------------

\* The text held by field key of a JSON object: empty when v is no object,
\* has no such field, or the field holds no string.
FieldText(v, key) ==
  IF v.t = "obj" /\ key \in DOMAIN v.f /\ v.f[key].t = "str"
  THEN v.f[key].v ELSE <<>>

\* The nested delta content of a choice.
NestedContent(ch) ==
  IF ch.t = "obj" /\ "delta" \in DOMAIN ch.f
  THEN FieldText(ch.f["delta"], "content") ELSE <<>>

\* What one choice gives: its nested delta content, or else its text field,
\* or else nothing.
ChoiceGives(ch) ==
  IF NestedContent(ch) # <<>> THEN NestedContent(ch) ELSE FieldText(ch, "text")

\* The choices of a payload that carries a list of them.
ChoiceList(p) ==
  IF p.t = "obj" /\ "choices" \in DOMAIN p.f /\ p.f["choices"].t = "arr"
  THEN p.f["choices"].v ELSE <<>>

RECURSIVE JoinChoices(_)
JoinChoices(cs) ==
  IF cs = <<>> THEN <<>> ELSE ChoiceGives(Head(cs)) \o JoinChoices(Tail(cs))

\* The delta a payload stands for: the direct text field when non-empty,
\* otherwise what its choices give, joined in order.
DeltaOf(p) ==
  IF FieldText(p, "response") # <<>> THEN FieldText(p, "response")
  ELSE JoinChoices(ChoiceList(p))

\* A line no text is extracted from: empty, an end marker, unparseable, or a
\* payload with no text.
LineHasNoText(line) ==
  \/ line.body.k \in {"empty", "done", "malformed"}
  \/ line.body.k = "json" /\ DeltaOf(line.body.v) = <<>>

\* C14: when the stream ends normally and no non-empty delta was extracted
\* (it held only empty lines, end markers, unparseable lines or payloads with
\* no text), the query produces exactly one value, the empty accumulator.
C14_NoDeltaGivesEmptyValue ==
  (qend = "complete" /\ \A k \in 1..Len(wire) : LineHasNoText(wire[k])) =>
    produced = << <<>> >>

\* Witness of C14: an unparseable line, a payload with an empty text and an
\* end marker were read, the stream ended, and the one value is the empty text.
C14_Witness ==
  /\ qend = "complete"
  /\ Len(wire) = 3
  /\ wire[1].body = MalformedBody
  /\ wire[2].body = JsonBody(Direct(<<>>))
  /\ wire[3].body = DoneBody
  /\ produced = << <<>> >>

\* ------------------------------------------------------------------------
\* Claims about how build_index ends and what it leaves stored
\* ------------------------------------------------------------------------

\* C15: every build ends in exactly one of the terminal states Empty, Done and
\* Failed, after at most N embedding calls for a corpus of N chunks; it ends
\* in Empty exactly when the corpus yields no chunk (and then made no
\* embedding call and no index write), and in Failed exactly when an
\* embedding call failed.
C15_BuildEndsEmptyDoneOrFailed ==
  BuildEnded =>
    /\ status.kind \in {"Empty", "Done", "EmbedError"}
    /\ Len(embedCalls) <= Len(all_chunks)
    /\ status.kind = "Empty" <=> all_chunks = <<>>
    /\ status.kind = "Empty" =>
         (embedCalls = <<>> /\ addCalls = <<>> /\ index = index0)
    /\ status.kind = "EmbedError" <=> failedAt # {}

\* The ids of the chunks of the running or last build: "0" .. "N-1".
ChunkIds == { ChunkId(i) : i \in 0..(Len(all_chunks) - 1) }

\* C16: when a build over N chunks ends Done, every id "0" .. "N-1" is
\* stored, and the count in the status is the number of stored entries, which
\* is the size of the union of the ids stored before the build and those ids.
C16_DoneMeansAllStored ==
  (BuildEnded /\ status.kind = "Done") =>
    /\ ChunkIds \subseteq DOMAIN index
    /\ status.n = Cardinality(DOMAIN index)
    /\ status.n = Cardinality(DOMAIN index0 \cup ChunkIds)

\* Witness of C16: a build ended Done that stored a chunk while an id beyond
\* the corpus was stored before it.
C16_Witness ==
  /\ BuildEnded /\ status.kind = "Done"
  /\ addCalls # <<>>
  /\ DOMAIN index0 \ ChunkIds # {}
  /\ status.n > Len(all_chunks)

\* The stages of a query, in the order of the code.
Stages == <<"embed", "query", "generate">>

\* C17: for a non-empty question the stages run strictly in the order embed,
\* index query, generation, each at most once; after a failure of the
\* embedding call neither the index query nor the generation call is made,
\* after a failure of the index query no generation call is made, and in both
\* cases exactly one value, an error description, is produced.
C17_StagesInOrder ==
  (Asked /\ ~OnlyWhitespace(question)) =>
    /\ IsPrefix(netCalls, Stages)
    /\ cause = "embed" =>
         /\ netCalls = <<"embed">>
         /\ Len(produced) = 1 /\ IsPrefix(EmbedErrorPrefix, produced[1])
         /\ qpc = "done"
    /\ cause = "query" =>
         /\ netCalls = <<"embed", "query">>
         /\ Len(produced) = 1 /\ IsPrefix(QueryErrorPrefix, produced[1])
         /\ qpc = "done"

\* Witness of C17: the embedding call succeeded, the index query failed, and
\* the query ended with the one error value and no generation call.
C17_Witness ==
  /\ ~OnlyWhitespace(question)
  /\ cause = "query"
  /\ netCalls = <<"embed", "query">>
  /\ Len(produced) = 1
  /\ qpc = "done"

\* A field that is absent or holds a value of one of the types ts.
FieldIs(o, key, ts) == key \in DOMAIN o.f => o.f[key].t \in ts

\* A choice object: its delta, when present, is an object whose content is a
\* string or null; its text, when present, is a string or null.
WellFormedChoice(ch) ==
  /\ ch.t = "obj"
  /\ FieldIs(ch, "delta", {"obj"})
  /\ "delta" \in DOMAIN ch.f => FieldIs(ch.f["delta"], "content", {"str", "null"})
  /\ FieldIs(ch, "text", {"str", "null"})

\* A payload of either shape: an object with a direct text field holding a
\* string, or with a list of choice objects, or both.
WellFormed(p) ==
  /\ p.t = "obj"
  /\ DOMAIN p.f \cap {"response", "choices"} # {}
  /\ FieldIs(p, "response", {"str"})
  /\ FieldIs(p, "choices", {"arr"})
  /\ "choices" \in DOMAIN p.f =>
       \A k \in 1..Len(p.f["choices"].v) : WellFormedChoice(p.f["choices"].v[k])

\* The delta of a line: that of its payload; a line without payload has none.
LineDelta(line) ==
  IF line.body.k = "json" THEN DeltaOf(line.body.v) ELSE <<>>

\* The deltas of the first k lines joined in order.
RECURSIVE JoinedUpTo(_, _)
JoinedUpTo(w, k) ==
  IF k = 0 THEN <<>> ELSE JoinedUpTo(w, k - 1) \o LineDelta(w[k])

\* One value for every line among the first k with a non-empty delta: the
\* deltas joined up to that line.
RECURSIVE ValuesUpTo(_, _)
ValuesUpTo(w, k) ==
  IF k = 0 THEN <<>>
  ELSE IF LineDelta(w[k]) # <<>>
       THEN Append(ValuesUpTo(w, k - 1), JoinedUpTo(w, k))
       ELSE ValuesUpTo(w, k - 1)

\* Every line read so far is an empty line, an end marker, an unparseable
\* line, or a parsed payload that is well-formed or no object at all.
OnlyWellFormedPayloads ==
  \A k \in 1..Len(wire) :
    /\ wire[k].body.k # "undecodable"
    /\ wire[k].body.k = "json" =>
         (wire[k].body.v.t # "obj" \/ WellFormed(wire[k].body.v))

\* The values yielded while lines were read (without the value that ends the
\* query).
YieldedInLoop ==
  IF qpc = "stream" THEN produced ELSE SubSeq(produced, 1, Len(produced) - 1)

\* C18: the delta extracted from a parsed payload is its direct text field
\* when non-empty, otherwise what its list of choices gives, joined in order
\* (per choice the nested delta content, or else the text field, or else
\* nothing); a payload with an empty delta produces no value and leaves the
\* accumulator unchanged; no well-formed payload of either shape aborts the
\* stream.
C18_BothPayloadShapesAccepted ==
  (ReachedGeneration /\ status_code = "200" /\ OnlyWellFormedPayloads) =>
    /\ cause # "payload"
    /\ accumulated = JoinedUpTo(wire, Len(wire))
    /\ YieldedInLoop = ValuesUpTo(wire, Len(wire))

\* Witness of C18: a payload of choices gave its text field where the nested
\* content was null, after a direct text and a payload with no text.
C18_Witness ==
  /\ qpc = "stream"
  /\ Len(wire) = 3
  /\ wire[1].body = JsonBody(Direct(<<"a">>))
  /\ wire[2].body = JsonBody(Choices(<<JObj([delta |-> JObj(NoFields)])>>))
  /\ wire[3].body = JsonBody(Choices(<<JObj([delta |-> JObj([content |-> JNull]),
                                            text |-> JStr(<<"b", "c">>)])>>))
  /\ produced = << <<"a">>, <<"a", "b", "c">> >>

\* The ids "0" .. "n-1".
FirstIds(n) == { ChunkId(i) : i \in 0..(n - 1) }

\* The ids of a collection are "0" .. "n-1" for the number n of its entries.
IsIdPrefix(ix) == DOMAIN ix = FirstIds(Cardinality(DOMAIN ix))

\* C19: starting from an empty index, after any sequence of builds, whatever
\* the corpus sizes and the embedding failures, the stored ids are exactly
\* "0" .. "n-1" for some n >= 0, without gaps, and n never decreases from one
\* build to the next.
C19_StoredIdsAreGrowingPrefix ==
  /\ IsIdPrefix(index)
  /\ IsIdPrefix(index0)
  /\ Cardinality(DOMAIN index0) <= Cardinality(DOMAIN index)

\* Witness of C19: a build on an index that already held entries added some
\* and then ended on a failed embedding call, before the last chunk.
C19_Witness ==
  /\ BuildEnded /\ status.kind = "EmbedError"
  /\ index0 # <<>>
  /\ addCalls # <<>>
  /\ Cardinality(DOMAIN index) < Len(all_chunks)

====
